---- MODULE Spec2Model ----
(***************************************************************************)
(* The scatter context of src/vec/vscat/interface/vscatfce.c: its          *)
(* life cycle (reference count, in-use flag), the Begin/End split phase,   *)
(* Copy, Remap and the device (GPU) index preparation.                     *)
(***************************************************************************)
EXTENDS Integers, Sequences, FiniteSets, TLC

(* ----------------------------- bounds ---------------------------------- *)
MaxHandles == 2        \* caller variables of type VecScatter
MaxCtx     == 2        \* context objects ever created in one run
MaxSize    == 2        \* local vector sizes are 1..MaxSize
MaxIdx     == 3        \* index values are 0..MaxIdx
MaxBs      == 2        \* block sizes are 1..MaxBs
MaxVal     == 12       \* vector entries are 0..MaxVal
MaxScatters == 2       \* transfers followed on one pair of vectors
MaxInFlight == 2       \* messages a process has sent that its peer has not received

Handles == 1..MaxHandles
CtxIds  == 1..MaxCtx
Sizes   == 1..MaxSize
NULL    == 0

(* ------------------------- error codes, modes -------------------------- *)
OK          == "0"
WRONGSTATE  == "PETSC_ERR_ARG_WRONGSTATE"
ARG_SIZ     == "PETSC_ERR_ARG_SIZ"
ERR_SUP     == "PETSC_ERR_SUP"
BACKEND_ERR == "ierr"          \* any error code a backend phase hands to CHKERRQ

ScatterModes == {"SCATTER_FORWARD", "SCATTER_REVERSE"}
\* the backend phase that reports an error in a call, if any
Failures == {"none", "begin", "end"}

VARIABLES
  PETSC_USE_DEBUG,   \* build flag: the size checks of Begin are compiled in
  ctx,               \* ctx[c]: the VecScatter object c (struct _p_VecScatter)
  handle,            \* handle[h]: the caller's VecScatter variable h (NULL or a ctx)
  ret,               \* the last call: operation, context, error code, backend phases run
  cycle,             \* history: cycle[c] is the Begin/End cycle c is in
  vec,               \* vec[c]: the local arrays of the vectors x and y scattered with c,
                     \*   and how many transfers have written them
  net,               \* net[c][d]: the messages from the process of c to that of d, in order
  pc                 \* pc[c]: the call in which the process of c waits, or "idle"

vars == <<PETSC_USE_DEBUG, ctx, handle, ret, cycle, vec, net, pc>>

(* --------------------- backend (format) instances ---------------------- *)
(* C arrays are 0-based and TLA+ sequences 1-based: a[i] of the code is    *)
(* a[i+1] here; index VALUES are kept as in the code (0-based).            *)

NoPlan == [present |-> FALSE, runs |-> <<>>]

\* length of the first maximal run of consecutive (+1) values of s
RECURSIVE RunLen(_)
RunLen(s) ==
  IF Len(s) >= 2 /\ s[2] = s[1] + 1 THEN 1 + RunLen(Tail(s)) ELSE 1

\* the decomposition of an index list into maximal contiguous runs
RECURSIVE Runs(_)
Runs(s) ==
  IF s = <<>> THEN <<>>
  ELSE LET r == RunLen(s)
       IN  <<[start |-> s[1], len |-> r]>> \o Runs(SubSeq(s, r + 1, Len(s)))

\* length of the first maximal run in which both lists advance by one
RECURSIVE PairRunLen(_, _)
PairRunLen(a, b) ==
  IF Len(a) >= 2 /\ a[2] = a[1] + 1 /\ b[2] = b[1] + 1
  THEN 1 + PairRunLen(Tail(a), Tail(b)) ELSE 1

RECURSIVE PairRuns(_, _)
PairRuns(a, b) ==
  IF a = <<>> THEN <<>>
  ELSE LET r == PairRunLen(a, b)
       IN  <<[to |-> a[1], from |-> b[1], len |-> r]>>
             \o PairRuns(SubSeq(a, r + 1, Len(a)), SubSeq(b, r + 1, Len(b)))

\* VecScatterMemcpyPlanCreate_Index: the plan of one index list
VecScatterMemcpyPlanCreate_Index(idx) == [present |-> TRUE, runs |-> Runs(idx)]

\* VecScatterMemcpyPlanCreate_SGToSG: the pairwise plan of two index lists
VecScatterMemcpyPlanCreate_SGToSG(toidx, fromidx) ==
  [present |-> TRUE, runs |-> PairRuns(toidx, fromidx)]

\* one side of a distributed-general (PtoP) context, with its plans
VecScatterMemcpyPlanCreate_PtoP(d) ==
  [d EXCEPT !.memcpy_plan = VecScatterMemcpyPlanCreate_Index(SubSeq(d.indices, 1, d.starts[d.n + 1])),
            !.local.memcpy_plan = VecScatterMemcpyPlanCreate_Index(d.local.vslots)]

VecScatterMemcpyPlanDestroy_PtoP(d) ==
  [d EXCEPT !.memcpy_plan = NoPlan, !.local.memcpy_plan = NoPlan]

\* VecScatter_MPI_General: n peers, starts[0..n], the flat index buffer,
\* the block size and the purely local slots
MPIGeneral(starts, indices, bs, vslots) ==
  VecScatterMemcpyPlanCreate_PtoP(
    [format |-> "VEC_SCATTER_MPI_GENERAL", n |-> Len(starts) - 1, starts |-> starts,
     indices |-> indices, bs |-> bs,
     local |-> [n |-> Len(vslots), vslots |-> vslots, memcpy_plan |-> NoPlan],
     memcpy_plan |-> NoPlan])

\* VecScatter_Seq_General: a flat list of local slots
SeqGeneral(vslots, plan) ==
  [format |-> "VEC_SCATTER_SEQ_GENERAL", n |-> Len(vslots), vslots |-> vslots,
   memcpy_plan |-> plan]

\* VecScatter_Seq_Stride: first, first+step, ..., n entries
SeqStride(n, first, step) ==
  [format |-> "VEC_SCATTER_SEQ_STRIDE", n |-> n, first |-> first, step |-> step]

\* VecScatter_MPI_ToAll
ToAll == [format |-> "VEC_SCATTER_MPI_TOALL"]

\* what todata/fromdata are after ops->destroy
Released == [format |-> "released"]

\* no device index mirror (spptr == NULL)
NoMirror == [set |-> FALSE, sends |-> <<>>, recvs |-> <<>>]

(* the (todata, fromdata) pairs a context is created with *)
PtoPScenario ==
  [to   |-> MPIGeneral(<<0, 2, 3>>, <<2, 0, 2>>, 2, <<1, 0>>),
   from |-> MPIGeneral(<<0, 3>>, <<0, 1, 2>>, 2, <<0, 1>>)]

SGToSGScenario ==
  [to   |-> SeqGeneral(<<3, 1, 0>>, VecScatterMemcpyPlanCreate_SGToSG(<<3, 1, 0>>, <<0, 1, 2>>)),
   from |-> SeqGeneral(<<0, 1, 2>>, VecScatterMemcpyPlanCreate_SGToSG(<<3, 1, 0>>, <<0, 1, 2>>))]

\* from-side general, to-side stride (first, step)
SGToSSScenario(first, step) ==
  [to   |-> SeqStride(2, first, step),
   from |-> SeqGeneral(<<1, 2>>, IF step = 1 THEN VecScatterMemcpyPlanCreate_Index(<<1, 2>>)
                                 ELSE NoPlan)]

\* from-side stride, to-side general
SSToSGScenario(first, step) ==
  [to   |-> SeqGeneral(<<1, 0>>, IF step = 1 THEN VecScatterMemcpyPlanCreate_Index(<<1, 0>>)
                                 ELSE NoPlan),
   from |-> SeqStride(2, first, step)]

ToAllScenario == [to |-> ToAll, from |-> ToAll]

\* a distributed-general pair with no peer: everything is purely local
PtoPLocalScenario ==
  [to   |-> MPIGeneral(<<0>>, <<>>, 1, <<1, 0>>),
   from |-> MPIGeneral(<<0>>, <<>>, 1, <<0, 1>>)]

\* both sides stride
SSToSSScenario == [to |-> SeqStride(2, 1, 1), from |-> SeqStride(2, 0, 1)]

Scenarios ==
  {PtoPScenario, SGToSGScenario, SGToSSScenario(0, 1), SSToSGScenario(0, 1),
   SSToSGScenario(1, 2), ToAllScenario}

\* every pairing of formats Remap distinguishes
RemapScenarios ==
  Scenarios \cup {SGToSSScenario(1, 2), SGToSSScenario(1, 1), SSToSSScenario, PtoPLocalScenario}

(* the remapping plans a caller passes to Remap *)
Identity == [i \in 0..MaxIdx |-> i]
Reversal == [i \in 0..MaxIdx |-> MaxIdx - i]
NullMap  == [null |-> TRUE, map |-> Identity]
Maps     == {NullMap, [null |-> FALSE, map |-> Identity], [null |-> FALSE, map |-> Reversal]}

\* the identity below MaxIdx - 1, the two highest values exchanged
SwapTop   == [i \in 0..MaxIdx |->
                IF i = MaxIdx THEN MaxIdx - 1 ELSE IF i = MaxIdx - 1 THEN MaxIdx ELSE i]
RemapMaps == Maps \cup {[null |-> FALSE, map |-> SwapTop]}


(* --------------------------- the context ------------------------------- *)
\* a slot no PetscHeaderCreate has used yet
NoCtx ==
  [state |-> "free", refct |-> 0, inuse |-> FALSE, beginandendtogether |-> FALSE,
   to_n |-> -1, from_n |-> -1, ops |-> [end |-> FALSE, copy |-> FALSE, destroy |-> FALSE],
   todata |-> Released, fromdata |-> Released, spptr |-> NoMirror]

\* a context after ops->destroy, VecScatterCUDAIndicesDestroy and PetscHeaderDestroy
DestroyedCtx == [NoCtx EXCEPT !.state = "destroyed"]

\* a context as VecScatterCreate and VecScatterSetUp leave it
NewCtx(sc, to_n, from_n, merge, ops) ==
  [state |-> "live", refct |-> 1, inuse |-> FALSE, beginandendtogether |-> merge,
   to_n |-> to_n, from_n |-> from_n, ops |-> ops,
   todata |-> sc.to, fromdata |-> sc.from, spptr |-> NoMirror]

Live(c) == c # NULL /\ ctx[c].state = "live"

Ret(op, c, err, calls) ==
  [op |-> op, c |-> c, err |-> err, calls |-> calls, flg |-> FALSE, cycleEnds |-> -1]

\* how many times the backend end-phase occurs in a list of backend calls
RECURSIVE EndCalls(_)
EndCalls(calls) ==
  IF calls = <<>> THEN 0
  ELSE (IF Head(calls) = "end" THEN 1 ELSE 0) + EndCalls(Tail(calls))

\* no vector data, no message, no process inside a call
NoVec    == [x |-> <<>>, y |-> <<>>, scatters |-> 0]
NoData   ==
  /\ vec = [c \in CtxIds |-> NoVec]
  /\ net = [c \in CtxIds |-> [d \in CtxIds |-> <<>>]]
  /\ pc = [c \in CtxIds |-> "idle"]

\* the states after VecScatterCreate and VecScatterSetUp of one context, held
\* by handle 1: its data is one of scs, its declared to-size one of tos
Created(scs, tos) ==
  /\ PETSC_USE_DEBUG \in BOOLEAN
  /\ \E sc \in scs, to_n \in tos, merge \in BOOLEAN, end \in BOOLEAN, copy \in BOOLEAN :
       ctx = [c \in CtxIds |->
                IF c = 1
                THEN NewCtx(sc, to_n, MaxSize, merge,
                            [end |-> end, copy |-> copy, destroy |-> TRUE])
                ELSE NoCtx]
  /\ handle = [h \in Handles |-> IF h = 1 THEN 1 ELSE NULL]
  /\ ret = Ret("Create", 1, OK, <<>>)
  /\ cycle = [c \in CtxIds |-> "none"]
  /\ NoData

\* the life cycle: a sequential context and its copies
Init == Created({SSToSGScenario(0, 1)}, {1})

\* the data: one context of every format
InitData == Created(Scenarios, Sizes)

\* the remapping: one context of every pairing of formats, in a debug build,
\* with an end-phase and no merging
InitRemap ==
  /\ PETSC_USE_DEBUG = TRUE
  /\ \E sc \in RemapScenarios :
       ctx = [c \in CtxIds |->
                IF c = 1
                THEN NewCtx(sc, 1, MaxSize, FALSE,
                            [end |-> TRUE, copy |-> TRUE, destroy |-> TRUE])
                ELSE NoCtx]
  /\ handle = [h \in Handles |-> IF h = 1 THEN 1 ELSE NULL]
  /\ ret = Ret("Create", 1, OK, <<>>)
  /\ cycle = [c \in CtxIds |-> "none"]
  /\ NoData

\* the copying: one distributed-general context, with or without a copy rule
InitCopy ==
  /\ PETSC_USE_DEBUG = FALSE
  /\ \E sc \in {PtoPScenario}, copy \in BOOLEAN :
       ctx = [c \in CtxIds |->
                IF c = 1
                THEN NewCtx(sc, 1, MaxSize, FALSE,
                            [end |-> TRUE, copy |-> copy, destroy |-> TRUE])
                ELSE NoCtx]
  /\ handle = [h \in Handles |-> IF h = 1 THEN 1 ELSE NULL]
  /\ ret = Ret("Create", 1, OK, <<>>)
  /\ cycle = [c \in CtxIds |-> "none"]
  /\ NoData

(* the local-general contexts whose transfers are followed *)
\* a local-general backend with a block size
SeqGeneralBlock(vslots, plan, bs) == [bs |-> bs] @@ SeqGeneral(vslots, plan)

SGPair(to, from, bs) ==
  LET plan == VecScatterMemcpyPlanCreate_SGToSG(to, from)
  IN  [to |-> SeqGeneralBlock(to, plan, bs), from |-> SeqGeneralBlock(from, plan, bs)]

\* the index lists of three entries below MaxIdx, the source lists among them
ToLists   == [1..3 -> 0..(MaxIdx - 1)]
FromLists == {<<0, 1, 2>>, <<2, 1, 0>>, <<1, 1, 2>>}
Perms     == {s \in ToLists : \A i \in 1..3, j \in 1..3 : s[i] = s[j] => i = j}

\* the example of the index-set convention
DocTo   == <<3, 1, 4, 1, 5>>
DocFrom == <<0, 1, 2, 2, 4>>

ScatterVectors(sc) ==
  IF sc.to.vslots = DocTo
  THEN [x |-> <<1, 2, 3, 4, 5>>, y |-> <<6, 7, 8, 9, 10, 11>>, scatters |-> 0]
  ELSE [x |-> [i \in 1..(MaxIdx + MaxBs) |-> i], y |-> [i \in 1..(MaxIdx + MaxBs) |-> 5 + i],
        scatters |-> 0]

\* the plan is absent
WithoutPlan(d) == [d EXCEPT !.memcpy_plan = NoPlan]

ScatterScenarios ==
  {SGPair(to, from, bs) : to \in ToLists, from \in FromLists, bs \in 1..MaxBs}
    \cup {SGPair(s, s, 1) : s \in Perms}
    \cup {SGPair(DocTo, DocFrom, 1),
          [to   |-> WithoutPlan(SGPair(DocTo, DocFrom, 1).to),
           from |-> WithoutPlan(SGPair(DocTo, DocFrom, 1).from)]}

\* the transfers: one local-general context (no end-phase) and two vectors
InitScatter ==
  /\ PETSC_USE_DEBUG = TRUE
  /\ \E sc \in ScatterScenarios :
       /\ ctx = [c \in CtxIds |->
                   IF c = 1
                   THEN NewCtx(sc, Len(ScatterVectors(sc).y), Len(ScatterVectors(sc).x), FALSE,
                               [end |-> FALSE, copy |-> TRUE, destroy |-> TRUE])
                   ELSE NoCtx]
       /\ vec = [c \in CtxIds |-> IF c = 1 THEN ScatterVectors(sc) ELSE NoVec]
  /\ handle = [h \in Handles |-> IF h = 1 THEN 1 ELSE NULL]
  /\ ret = Ret("Create", 1, OK, <<>>)
  /\ cycle = [c \in CtxIds |-> "none"]
  /\ net = [c \in CtxIds |-> [d \in CtxIds |-> <<>>]]
  /\ pc = [c \in CtxIds |-> "idle"]

(* two processes run one distributed scatter: process p holds context p *)
Procs   == {1, 2}
Peer(p) == IF p = 1 THEN 2 ELSE 1

\* one side of a distributed-general context with nothing to move
NoPeer == MPIGeneral(<<0>>, <<>>, 1, <<>>)

\* each process sends x[0] to the other and receives into y[1]
ExchangeScenario ==
  [p \in Procs |-> [to   |-> MPIGeneral(<<0, 1>>, <<0>>, 1, <<>>),
                    from |-> MPIGeneral(<<0, 1>>, <<1>>, 1, <<>>)]]

\* process 1 sends x[0] and x[1], process 2 receives them into y[1] and y[0]
OneWayScenario ==
  [p \in Procs |->
     IF p = 1 THEN [to |-> MPIGeneral(<<0, 2>>, <<0, 1>>, 1, <<>>), from |-> NoPeer]
     ELSE [to |-> NoPeer, from |-> MPIGeneral(<<0, 2>>, <<1, 0>>, 1, <<>>)]]

PeerScenarios == {ExchangeScenario, OneWayScenario}

\* the distributed scatter as VecScatterCreate leaves it on the two processes
InitPeers ==
  /\ PETSC_USE_DEBUG = TRUE
  /\ \E sc \in PeerScenarios, merge \in BOOLEAN :
       ctx = [c \in CtxIds |->
                IF c \in Procs
                THEN NewCtx(sc[c], 2, 2, merge, [end |-> TRUE, copy |-> TRUE, destroy |-> TRUE])
                ELSE NoCtx]
  /\ handle = [h \in Handles |-> IF h \in Procs THEN h ELSE NULL]
  /\ ret = Ret("Create", 1, OK, <<>>)
  /\ cycle = [c \in CtxIds |-> "none"]
  /\ vec = [c \in CtxIds |->
              IF c \in Procs THEN [x |-> <<c, c + 2>>, y |-> <<0, 0>>, scatters |-> 0]
              ELSE NoVec]
  /\ net = [c \in CtxIds |-> [d \in CtxIds |-> <<>>]]
  /\ pc = [c \in CtxIds |-> "idle"]

(* ------------------------- VecScatterGetMerged ------------------------- *)
VecScatterGetMerged(h) ==
  /\ Live(handle[h])
  /\ ret' = [Ret("GetMerged", handle[h], OK, <<>>)
               EXCEPT !.flg = ctx[handle[h]].beginandendtogether]
  /\ UNCHANGED <<PETSC_USE_DEBUG, ctx, handle, cycle, vec, net, pc>>

(* --------------------------- VecScatterBegin --------------------------- *)
BeginInUse_Unchecked(sc) == FALSE

\* line 86: the context is already in use
BeginInUse(sc) == sc.inuse

\* mode & SCATTER_REVERSE
IsReverse(mode) == mode = "SCATTER_REVERSE"

BeginWrongSize_ForwardOnly(sc, xn, yn, mode) ==
  /\ PETSC_USE_DEBUG
  /\ sc.from_n >= 0 /\ sc.to_n >= 0
  /\ (yn # sc.to_n \/ xn # sc.from_n)

\* lines 88-106: the size check of a debug build raises an error
BeginWrongSize(sc, xn, yn, mode) ==
  /\ PETSC_USE_DEBUG
  /\ sc.from_n >= 0 /\ sc.to_n >= 0
  /\ IF IsReverse(mode)
     THEN yn # sc.from_n \/ xn # sc.to_n
     ELSE yn # sc.to_n \/ xn # sc.from_n

BeginRunsEnd_Unmerged(sc) == sc.ops.end

\* line 111: Begin runs the end-phase itself
BeginRunsEnd(sc) == sc.beginandendtogether /\ sc.ops.end

\* the context once the backend begin-phase is entered (line 108)
BeginMark(sc) == [sc EXCEPT !.inuse = TRUE]

BeginUnmark_Keep(sc) == sc

\* the context when Begin folds the end-phase in (line 112)
BeginUnmark(sc) == [sc EXCEPT !.inuse = FALSE]

\* the whole call on context sc with vectors of local sizes xn and yn; fail
\* names the backend phase that reports an error
BeginCall(sc, xn, yn, mode, fail) ==
  IF BeginInUse(sc) THEN [ctx |-> sc, err |-> WRONGSTATE, calls |-> <<>>]
  ELSE IF BeginWrongSize(sc, xn, yn, mode) THEN [ctx |-> sc, err |-> ARG_SIZ, calls |-> <<>>]
  ELSE IF fail = "begin"
       THEN [ctx |-> BeginMark(sc), err |-> BACKEND_ERR, calls |-> <<"begin">>]
  ELSE IF BeginRunsEnd(BeginMark(sc))
       THEN [ctx |-> BeginUnmark(BeginMark(sc)),
             err |-> IF fail = "end" THEN BACKEND_ERR ELSE OK,
             calls |-> <<"begin", "end">>]
  ELSE [ctx |-> BeginMark(sc), err |-> OK, calls |-> <<"begin">>]

\* history: the cycle a context is in after a Begin call
CycleAfterBegin(old, r) ==
  IF r.err = OK THEN (IF EndCalls(r.calls) > 0 THEN "folded" ELSE "open")
  ELSE IF r.calls = <<>> THEN old
  ELSE "none"

VecScatterBegin(h, xn, yn, mode, fail) ==
  /\ Live(handle[h])
  /\ LET c == handle[h]
         r == BeginCall(ctx[c], xn, yn, mode, fail)
     IN  /\ ctx' = [ctx EXCEPT ![c] = r.ctx]
         /\ ret' = Ret("Begin", c, r.err, r.calls)
         /\ cycle' = [cycle EXCEPT ![c] = CycleAfterBegin(@, r)]
  /\ UNCHANGED <<PETSC_USE_DEBUG, handle, vec, net, pc>>

(* ---------------------------- VecScatterEnd ---------------------------- *)
\* line 151
EndClear(sc) == [sc EXCEPT !.inuse = FALSE]

EndRunsEnd_Always(sc) == sc.ops.end

EndRunsEnd_InUse(sc) == sc.inuse /\ sc.ops.end /\ ~sc.beginandendtogether

\* lines 152-157: End runs the backend end-phase
EndRunsEnd(sc) == sc.ops.end /\ ~sc.beginandendtogether

EndCall(sc, fail) ==
  IF EndRunsEnd(sc)
  THEN [ctx |-> EndClear(sc), err |-> IF fail = "end" THEN BACKEND_ERR ELSE OK,
        calls |-> <<"end">>]
  ELSE [ctx |-> EndClear(sc), err |-> OK, calls |-> <<>>]

VecScatterEnd(h, fail) ==
  /\ Live(handle[h])
  /\ fail \in {"none", "end"}
  /\ LET c == handle[h]
         r == EndCall(ctx[c], fail)
     IN  /\ ctx' = [ctx EXCEPT ![c] = r.ctx]
         /\ ret' = [Ret("End", c, r.err, r.calls)
                      EXCEPT !.cycleEnds =
                        IF cycle[c] = "none" THEN -1
                        ELSE (IF cycle[c] = "folded" THEN 1 ELSE 0) + EndCalls(r.calls)]
         /\ cycle' = [cycle EXCEPT ![c] = "none"]
  /\ UNCHANGED <<PETSC_USE_DEBUG, handle, vec, net, pc>>

(* -------------------------- VecScatterDestroy -------------------------- *)
DestroyInUse_Unchecked(sc) == FALSE

DestroyInUse_Shared(sc) == sc.inuse /\ sc.refct > 1

\* line 181: the last owner destroys a context that is in use
DestroyInUse(sc) == sc.inuse /\ sc.refct = 1

DestroyDecrement_Reset(sc) == [sc EXCEPT !.refct = @ - 1, !.inuse = FALSE]

\* line 182: --refct
DestroyDecrement(sc) == [sc EXCEPT !.refct = @ - 1]

DestroyStillOwned_OffByOne(sc) == sc.refct > 1

\* line 182: other owners remain after the decrement
DestroyStillOwned(sc) == sc.refct > 0

\* lines 185-190: ops->destroy, VecScatterCUDAIndicesDestroy, PetscHeaderDestroy
DestroyRelease(sc) == DestroyedCtx

DestroyCall(sc) ==
  IF DestroyInUse(sc) THEN [ctx |-> sc, err |-> WRONGSTATE, cleared |-> FALSE]
  ELSE IF DestroyStillOwned(DestroyDecrement(sc))
       THEN [ctx |-> DestroyDecrement(sc), err |-> OK, cleared |-> TRUE]
  ELSE [ctx |-> DestroyRelease(DestroyDecrement(sc)), err |-> OK, cleared |-> TRUE]

VecScatterDestroy(h) ==
  /\ IF handle[h] = NULL
     THEN /\ ret' = Ret("Destroy", NULL, OK, <<>>)
          /\ UNCHANGED <<ctx, handle, cycle>>
     ELSE LET c == handle[h]
              r == DestroyCall(ctx[c])
          IN  /\ ctx' = [ctx EXCEPT ![c] = r.ctx]
              /\ handle' = IF r.cleared THEN [handle EXCEPT ![h] = NULL] ELSE handle
              /\ ret' = Ret("Destroy", c, r.err, <<>>)
              /\ cycle' = IF r.ctx.state = "destroyed"
                          THEN [cycle EXCEPT ![c] = "none"] ELSE cycle
  /\ UNCHANGED <<PETSC_USE_DEBUG, vec, net, pc>>

(* ------------------------ PetscObjectReference ------------------------- *)
\* a second owner: the caller copies its handle and takes a reference
PetscObjectReference(h, h2) ==
  /\ Live(handle[h])
  /\ handle[h2] = NULL
  /\ ctx' = [ctx EXCEPT ![handle[h]].refct = @ + 1]
  /\ handle' = [handle EXCEPT ![h2] = handle[h]]
  /\ ret' = Ret("Reference", handle[h], OK, <<>>)
  /\ UNCHANGED <<PETSC_USE_DEBUG, cycle, vec, net, pc>>


(* ---------------------------- VecScatterCopy --------------------------- *)
CopyUnsupported_Never(sc) == FALSE

\* line 239: the backend has no copy rule
CopyUnsupported(sc) == ~sc.ops.copy

CopyCall_Flags(sc, merge) ==
  [state |-> "live", refct |-> 1, inuse |-> sc.inuse, beginandendtogether |-> merge,
   to_n |-> sc.to_n, from_n |-> sc.from_n, ops |-> sc.ops,
   todata |-> sc.todata, fromdata |-> sc.fromdata, spptr |-> sc.spptr]

\* lines 240-246: a fresh header (reference count 1, not in use, no device
\* mirror), the declared sizes, and the backend's own copy of its data.
\* The backend decides the copy's merge flag.
CopyCall(sc, merge) ==
  [state |-> "live", refct |-> 1, inuse |-> FALSE, beginandendtogether |-> merge,
   to_n |-> sc.to_n, from_n |-> sc.from_n, ops |-> sc.ops,
   todata |-> sc.todata, fromdata |-> sc.fromdata, spptr |-> NoMirror]

VecScatterCopy(h, h2, merge) ==
  /\ Live(handle[h])
  /\ handle[h2] = NULL
  /\ \E n \in CtxIds :
       /\ ctx[n].state = "free"
       /\ \A m \in CtxIds : ctx[m].state = "free" => n <= m
       /\ IF CopyUnsupported(ctx[handle[h]])
          THEN /\ ret' = Ret("Copy", handle[h], ERR_SUP, <<>>)
               /\ UNCHANGED <<ctx, handle>>
          ELSE /\ ctx' = [ctx EXCEPT ![n] = CopyCall(ctx[handle[h]], merge)]
               /\ handle' = [handle EXCEPT ![h2] = n]
               /\ ret' = Ret("Copy", handle[h], OK, <<"copy">>)
  /\ UNCHANGED <<PETSC_USE_DEBUG, cycle, vec, net, pc>>

(* --------------------------- VecScatterRemap --------------------------- *)
MapSeq_ByPosition(m, s) == [i \in 1..Len(s) |-> m[i - 1]]

\* tomap[s[i]] for every entry of s
MapSeq(m, s) == [i \in 1..Len(s) |-> m[s[i]]]

RemapMPIGeneral_OffProcessorOnly(to, from, m) ==
  LET to1 == [to EXCEPT
                !.indices = [i \in 1..Len(@) |->
                               IF i <= to.starts[to.n + 1] THEN m[@[i]] ELSE @[i]]]
  IN  [to   |-> VecScatterMemcpyPlanCreate_PtoP(VecScatterMemcpyPlanDestroy_PtoP(to1)),
       from |-> VecScatterMemcpyPlanCreate_PtoP(VecScatterMemcpyPlanDestroy_PtoP(from)),
       err  |-> OK, calls |-> <<"PlanDestroy_PtoP", "PlanCreate_PtoP">>]

\* lines 324-335: both sides of a distributed-general context
RemapMPIGeneral(to, from, m) ==
  LET to1 == [to EXCEPT
                !.indices = [i \in 1..Len(@) |->
                               IF i <= to.starts[to.n + 1] THEN m[@[i]] ELSE @[i]],
                !.local.vslots = MapSeq(m, @)]
  IN  [to   |-> VecScatterMemcpyPlanCreate_PtoP(VecScatterMemcpyPlanDestroy_PtoP(to1)),
       from |-> VecScatterMemcpyPlanCreate_PtoP(VecScatterMemcpyPlanDestroy_PtoP(from)),
       err  |-> OK, calls |-> <<"PlanDestroy_PtoP", "PlanCreate_PtoP">>]

RemapRebuildsIndexPlan_Never(to) == FALSE

RemapRebuildsIndexPlan_IdentityOnly(to) ==
  to.format = "VEC_SCATTER_SEQ_STRIDE" /\ to.step = 1 /\ to.first = 0

\* line 340: the paired stride for which the single-run plan is rebuilt
RemapRebuildsIndexPlan(to) == to.format = "VEC_SCATTER_SEQ_STRIDE" /\ to.step = 1

RemapSeqGeneral_ToSide(to, from, m) ==
  [to   |-> IF to.format = "VEC_SCATTER_SEQ_GENERAL"
            THEN [to EXCEPT !.vslots = MapSeq(m, @)] ELSE to,
   from |-> from, err |-> OK, calls |-> <<>>]

RemapSeqGeneral_StalePlan(to, from, m) ==
  [to |-> to, from |-> [from EXCEPT !.vslots = MapSeq(m, @)], err |-> OK, calls |-> <<>>]

\* lines 336-349: the general side of a sequential context
RemapSeqGeneral(to, from, m) ==
  LET from1 == [from EXCEPT !.vslots = MapSeq(m, @)]
  IN  IF RemapRebuildsIndexPlan(to)
      THEN [to |-> to,
            from |-> [from1 EXCEPT !.memcpy_plan = VecScatterMemcpyPlanCreate_Index(from1.vslots)],
            err |-> OK, calls |-> <<"PlanDestroy", "PlanCreate_Index">>]
      ELSE IF to.format = "VEC_SCATTER_SEQ_GENERAL"
      THEN LET plan == VecScatterMemcpyPlanCreate_SGToSG(to.vslots, from1.vslots)
           IN  [to |-> [to EXCEPT !.memcpy_plan = plan],
                from |-> [from1 EXCEPT !.memcpy_plan = plan],
                err |-> OK, calls |-> <<"PlanDestroy", "PlanDestroy", "PlanCreate_SGToSG">>]
      ELSE [to |-> to, from |-> from1, err |-> OK, calls |-> <<>>]

RemapSeqStride_AnyStride(to, from, m) ==
  IF \A i \in 0..(from.n - 1) : m[i] = i
  THEN [to |-> to, from |-> from, err |-> OK, calls |-> <<>>]
  ELSE [to |-> to, from |-> from, err |-> ARG_SIZ, calls |-> <<>>]

RemapSeqStride_WholeMap(to, from, m) ==
  IF from.step = 1 /\ from.first = 0 /\ \A i \in 0..MaxIdx : m[i] = i
  THEN [to |-> to, from |-> from, err |-> OK, calls |-> <<>>]
  ELSE [to |-> to, from |-> from, err |-> ARG_SIZ, calls |-> <<>>]

\* lines 350-358: a stride is remapped only by the identity
RemapSeqStride(to, from, m) ==
  IF from.step = 1 /\ from.first = 0 /\ \A i \in 0..(from.n - 1) : m[i] = i
  THEN [to |-> to, from |-> from, err |-> OK, calls |-> <<>>]
  ELSE [to |-> to, from |-> from, err |-> ARG_SIZ, calls |-> <<>>]

\* lines 321-360: the tomap part
RemapTo(to, from, tomap) ==
  IF tomap.null THEN [to |-> to, from |-> from, err |-> OK, calls |-> <<>>]
  ELSE IF to.format = "VEC_SCATTER_MPI_TOALL"
       THEN [to |-> to, from |-> from, err |-> ARG_SIZ, calls |-> <<>>]
  ELSE IF to.format = "VEC_SCATTER_MPI_GENERAL" THEN RemapMPIGeneral(to, from, tomap.map)
  ELSE IF from.format = "VEC_SCATTER_SEQ_GENERAL" THEN RemapSeqGeneral(to, from, tomap.map)
  ELSE IF from.format = "VEC_SCATTER_SEQ_STRIDE" THEN RemapSeqStride(to, from, tomap.map)
  ELSE [to |-> to, from |-> from, err |-> ARG_SIZ, calls |-> <<>>]

RemapSizes_FromOnly(sc) == [sc EXCEPT !.from_n = -1]

\* lines 364-369: the vector lengths become unknown
RemapSizes(sc) == [sc EXCEPT !.from_n = -1, !.to_n = -1]

RemapFromUnsupported_Never(frommap) == FALSE

\* line 362: a frommap is given
RemapFromUnsupported(frommap) == ~frommap.null

RemapCall(sc, tomap, frommap) ==
  LET r  == RemapTo(sc.todata, sc.fromdata, tomap)
      s1 == [sc EXCEPT !.todata = r.to, !.fromdata = r.from]
  IN  IF r.err # OK THEN [ctx |-> s1, err |-> r.err, calls |-> r.calls]
      ELSE IF RemapFromUnsupported(frommap)
           THEN [ctx |-> s1, err |-> ERR_SUP, calls |-> r.calls]
      ELSE [ctx |-> RemapSizes(s1), err |-> OK, calls |-> r.calls]

VecScatterRemap(h, tomap, frommap) ==
  /\ Live(handle[h])
  /\ LET c == handle[h]
         r == RemapCall(ctx[c], tomap, frommap)
     IN  /\ ctx' = [ctx EXCEPT ![c] = r.ctx]
         /\ ret' = Ret("Remap", c, r.err, r.calls)
  /\ UNCHANGED <<PETSC_USE_DEBUG, handle, cycle, vec, net, pc>>

(* ---------------------- VecScatterInitializeForGPU --------------------- *)
VecScatterIsSequential_Private(d) ==
  d.format = "VEC_SCATTER_SEQ_GENERAL" \/ d.format = "VEC_SCATTER_SEQ_STRIDE"

\* PetscSortRemoveDupsInt: the distinct values of s in increasing order
RECURSIVE SortSet(_)
SortSet(S) ==
  IF S = {} THEN <<>>
  ELSE LET m == CHOOSE x \in S : \A y \in S : x <= y
       IN  <<m>> \o SortSet(S \ {m})

PetscSortRemoveDupsInt(s) == SortSet({s[i] : i \in 1..Len(s)})

\* lines 483-485, 489-491: each index becomes bs consecutive component indices
BlockExpand(s, bs) ==
  [j \in 1..(Len(s) * bs) |-> s[((j - 1) \div bs) + 1] + ((j - 1) % bs)]

GPUIndices_NoDedup(to, from) ==
  [set   |-> TRUE,
   sends |-> BlockExpand(SubSeq(to.indices, 1, to.starts[to.n + 1]), to.bs),
   recvs |-> BlockExpand(SubSeq(from.indices, 1, from.starts[from.n + 1]), from.bs)]

\* lines 468-495: the index buffers handed to VecScatterCUDAIndicesCreate_PtoP
GPUIndices(to, from) ==
  [set   |-> TRUE,
   sends |-> BlockExpand(PetscSortRemoveDupsInt(SubSeq(to.indices, 1, to.starts[to.n + 1])),
                         to.bs),
   recvs |-> BlockExpand(PetscSortRemoveDupsInt(SubSeq(from.indices, 1, from.starts[from.n + 1])),
                         from.bs)]

InitializeForGPUCall_Unallocated(sc, xalloc, mode) ==
  IF VecScatterIsSequential_Private(sc.fromdata) \/ VecScatterIsSequential_Private(sc.todata)
  THEN sc
  ELSE LET to   == IF IsReverse(mode) THEN sc.fromdata ELSE sc.todata
           from == IF IsReverse(mode) THEN sc.todata ELSE sc.fromdata
       IN  IF (to.n > 0 \/ from.n > 0) /\ ~sc.spptr.set
           THEN [sc EXCEPT !.spptr = GPUIndices(to, from)]
           ELSE sc

InitializeForGPUCall_Rebuilds(sc, xalloc, mode) ==
  IF VecScatterIsSequential_Private(sc.fromdata) \/ VecScatterIsSequential_Private(sc.todata)
  THEN sc
  ELSE LET to   == IF IsReverse(mode) THEN sc.fromdata ELSE sc.todata
           from == IF IsReverse(mode) THEN sc.todata ELSE sc.fromdata
       IN  IF xalloc /\ (to.n > 0 \/ from.n > 0)
           THEN [sc EXCEPT !.spptr = GPUIndices(to, from)]
           ELSE sc

\* xalloc: x->valid_GPU_array != PETSC_OFFLOAD_UNALLOCATED
InitializeForGPUCall(sc, xalloc, mode) ==
  IF VecScatterIsSequential_Private(sc.fromdata) \/ VecScatterIsSequential_Private(sc.todata)
  THEN sc
  ELSE LET to   == IF IsReverse(mode) THEN sc.fromdata ELSE sc.todata
           from == IF IsReverse(mode) THEN sc.todata ELSE sc.fromdata
       IN  IF xalloc /\ (to.n > 0 \/ from.n > 0) /\ ~sc.spptr.set
           THEN [sc EXCEPT !.spptr = GPUIndices(to, from)]
           ELSE sc

\* the casts of lines 453-457 read a VecScatter_MPI_General: the call is made
\* on sequential and distributed-general contexts only
VecScatterInitializeForGPU(h, xalloc, mode) ==
  /\ Live(handle[h])
  /\ ctx[handle[h]].todata.format # "VEC_SCATTER_MPI_TOALL"
  /\ ctx' = [ctx EXCEPT ![handle[h]] = InitializeForGPUCall(@, xalloc, mode)]
  /\ ret' = Ret("InitializeForGPU", handle[h], OK, <<>>)
  /\ UNCHANGED <<PETSC_USE_DEBUG, handle, cycle, vec, net, pc>>

(* ----------------------- VecScatterFinalizeForGPU ---------------------- *)
VecScatterFinalizeForGPU(h) ==
  /\ Live(handle[h])
  /\ ret' = Ret("FinalizeForGPU", handle[h], OK, <<>>)
  /\ UNCHANGED <<PETSC_USE_DEBUG, ctx, handle, cycle, vec, net, pc>>

(* ------------------ the local-general backend's transfer --------------- *)
(* Arrays are 0-based in the code: entry p of a vector v is v[p + 1].      *)
InsertModes == {"INSERT_VALUES", "ADD_VALUES"}

\* the scalars moved per index
BlockSize(d) == IF "bs" \in DOMAIN d THEN d.bs ELSE 1

Store_Accumulate(y, p, v, addv) == [y EXCEPT ![p + 1] = @ + v]

\* y[p] = v or y[p] += v
Store(y, p, v, addv) ==
  [y EXCEPT ![p + 1] = IF addv = "ADD_VALUES" THEN @ + v ELSE v]

\* for (k=0; k<n; k++) y[t+k] (+)= x[f+k]
RECURSIVE CopyBlock(_, _, _, _, _, _)
CopyBlock(y, x, t, f, n, addv) ==
  IF n = 0 THEN y
  ELSE Store(CopyBlock(y, x, t, f, n - 1, addv), t + n - 1, x[f + n], addv)

RECURSIVE ScatterLoop(_, _, _, _, _, _)
ScatterLoop_FirstWins(y, x, to, from, bs, addv) ==
  IF to = <<>> THEN y
  ELSE CopyBlock(ScatterLoop(y, x, Tail(to), Tail(from), bs, addv),
                 x, Head(to), Head(from), bs, addv)

\* the element-wise transfer: for (i=0; i<n; i++) y[to[i]] (+)= x[from[i]]
ScatterLoop(y, x, to, from, bs, addv) ==
  IF to = <<>> THEN y
  ELSE ScatterLoop(CopyBlock(y, x, Head(to), Head(from), bs, addv),
                   x, Tail(to), Tail(from), bs, addv)

\* the transfer by a plan: run after run, each run one contiguous copy
RECURSIVE VecScatterMemcpyPlanExecute(_, _, _, _, _, _)
VecScatterMemcpyPlanExecute(y, x, runs, reverse, bs, addv) ==
  IF runs = <<>> THEN y
  ELSE LET r == Head(runs)
           t == IF reverse THEN r.from ELSE r.to
           f == IF reverse THEN r.to ELSE r.from
       IN  VecScatterMemcpyPlanExecute(
             ScatterLoop(y, x, [j \in 1..r.len |-> t + j - 1],
                         [j \in 1..r.len |-> f + j - 1], bs, addv),
             x, Tail(runs), reverse, bs, addv)

\* the begin-phase of a local-general to local-general context: the whole
\* transfer from the array x into the array y
VecScatterBegin_SGToSG(to, from, x, y, addv, mode) ==
  IF to.memcpy_plan.present
  THEN VecScatterMemcpyPlanExecute(y, x, to.memcpy_plan.runs, IsReverse(mode),
                                   BlockSize(to), addv)
  ELSE IF IsReverse(mode)
       THEN ScatterLoop(y, x, from.vslots, to.vslots, BlockSize(to), addv)
       ELSE ScatterLoop(y, x, to.vslots, from.vslots, BlockSize(to), addv)

IsSGToSG(sc) ==
  /\ sc.todata.format = "VEC_SCATTER_SEQ_GENERAL"
  /\ sc.fromdata.format = "VEC_SCATTER_SEQ_GENERAL"

\* VecScatterBegin(ctx, x, y, addv, mode) on the caller's vectors: a reverse
\* scatter is called with the two vectors exchanged
ScatterBegin(h, addv, mode) ==
  /\ Live(handle[h])
  /\ IsSGToSG(ctx[handle[h]])
  /\ LET c   == handle[h]
         x   == IF IsReverse(mode) THEN vec[c].y ELSE vec[c].x
         y   == IF IsReverse(mode) THEN vec[c].x ELSE vec[c].y
         r   == BeginCall(ctx[c], Len(x), Len(y), mode, "none")
         out == IF r.calls = <<>> THEN y
                ELSE VecScatterBegin_SGToSG(ctx[c].todata, ctx[c].fromdata, x, y, addv, mode)
     IN  /\ vec[c].scatters < MaxScatters
         /\ \A i \in 1..Len(out) : out[i] <= MaxVal
         /\ ctx' = [ctx EXCEPT ![c] = r.ctx]
         /\ ret' = [mode |-> mode, addv |-> addv] @@ Ret("Begin", c, r.err, r.calls)
         /\ cycle' = [cycle EXCEPT ![c] = CycleAfterBegin(@, r)]
         /\ vec' = [vec EXCEPT ![c] =
                      [x |-> IF IsReverse(mode) THEN out ELSE x,
                       y |-> IF IsReverse(mode) THEN x ELSE out,
                       scatters |-> @.scatters + (IF r.calls = <<>> THEN 0 ELSE 1)]]
  /\ UNCHANGED <<PETSC_USE_DEBUG, handle, net, pc>>

(* --------------- the distributed-general backend's phases -------------- *)
\* the begin-phase packs the entries of x a side lists for its peer
Pack(d, x) == [i \in 1..d.starts[d.n + 1] |-> x[d.indices[i] + 1]]

\* the end-phase unpacks a message into the entries of y a side lists
Unpack(d, y, msg) == ScatterLoop(y, msg, d.indices, [i \in 1..Len(msg) |-> i - 1], 1,
                                 "INSERT_VALUES")

\* VecScatterBegin on process p: the begin-phase posts its sends and receives
\* without waiting; a Begin that runs the end-phase too (line 113) stays in
\* the call until its transfers complete
PeerBegin(p) ==
  /\ pc[p] = "idle" /\ Live(handle[p])
  /\ LET r == BeginCall(ctx[p], Len(vec[p].x), Len(vec[p].y), "SCATTER_FORWARD", "none")
         sends == r.calls # <<>> /\ ctx[p].todata.n > 0
     IN  /\ ctx' = [ctx EXCEPT ![p] = r.ctx]
         /\ ret' = Ret("Begin", p, r.err, r.calls)
         /\ cycle' = [cycle EXCEPT ![p] = CycleAfterBegin(@, r)]
         /\ net' = IF sends
                   THEN [net EXCEPT ![p][Peer(p)] = Append(@, Pack(ctx[p].todata, vec[p].x))]
                   ELSE net
         /\ pc' = [pc EXCEPT ![p] = IF EndCalls(r.calls) > 0 THEN "Begin" ELSE "idle"]
  /\ UNCHANGED <<PETSC_USE_DEBUG, handle, vec>>

\* VecScatterEnd on process p: the end-phase, when End runs it (line 155),
\* keeps the process in the call until its transfers complete
PeerEnd(p) ==
  /\ pc[p] = "idle" /\ Live(handle[p])
  /\ LET r == EndCall(ctx[p], "none")
     IN  /\ ctx' = [ctx EXCEPT ![p] = r.ctx]
         /\ ret' = Ret("End", p, r.err, r.calls)
         /\ pc' = [pc EXCEPT ![p] = IF EndCalls(r.calls) > 0 THEN "End" ELSE "idle"]
  /\ cycle' = [cycle EXCEPT ![p] = "none"]
  /\ UNCHANGED <<PETSC_USE_DEBUG, handle, vec, net>>

\* the transfers process p waits for in the end-phase are complete
Arrived(p) == ctx[p].fromdata.n > 0 => net[Peer(p)][p] # <<>>

\* the end-phase on process p completes: the message of the peer, if p
\* receives one, is unpacked into y, and the call returns
PeerWait(p) ==
  /\ pc[p] # "idle" /\ Live(handle[p])
  /\ Arrived(p)
  /\ IF ctx[p].fromdata.n > 0
     THEN /\ vec' = [vec EXCEPT ![p].y = Unpack(ctx[p].fromdata, @, Head(net[Peer(p)][p]))]
          /\ net' = [net EXCEPT ![Peer(p)][p] = Tail(@)]
     ELSE UNCHANGED <<vec, net>>
  /\ ret' = Ret(pc[p], p, OK, <<"end">>)
  /\ pc' = [pc EXCEPT ![p] = "idle"]
  /\ UNCHANGED <<PETSC_USE_DEBUG, ctx, handle, cycle>>

(* --------------------------- specification ----------------------------- *)
Next ==
  \/ \E h \in Handles : VecScatterGetMerged(h)
  \/ \E h \in Handles, xn \in Sizes, yn \in Sizes, mode \in ScatterModes, fail \in Failures :
       VecScatterBegin(h, xn, yn, mode, fail)
  \/ \E h \in Handles, fail \in Failures : VecScatterEnd(h, fail)
  \/ \E h \in Handles : VecScatterDestroy(h)
  \/ \E h \in Handles, h2 \in Handles : PetscObjectReference(h, h2)
  \/ \E h \in Handles, h2 \in Handles, merge \in BOOLEAN : VecScatterCopy(h, h2, merge)
  \/ \E h \in Handles, tomap \in Maps, frommap \in Maps : VecScatterRemap(h, tomap, frommap)
  \/ \E h \in Handles, xalloc \in BOOLEAN, mode \in ScatterModes :
       VecScatterInitializeForGPU(h, xalloc, mode)
  \/ \E h \in Handles : VecScatterFinalizeForGPU(h)

Spec == Init /\ [][Next]_vars

\* the operations on one context and its owners (a copy is another context)
NextData ==
  \/ \E h \in Handles : VecScatterGetMerged(h)
  \/ \E h \in Handles, xn \in Sizes, yn \in Sizes, mode \in ScatterModes, fail \in Failures :
       VecScatterBegin(h, xn, yn, mode, fail)
  \/ \E h \in Handles, fail \in Failures : VecScatterEnd(h, fail)
  \/ \E h \in Handles : VecScatterDestroy(h)
  \/ \E h \in Handles, tomap \in Maps, frommap \in Maps : VecScatterRemap(h, tomap, frommap)
  \/ \E h \in Handles, xalloc \in BOOLEAN, mode \in ScatterModes :
       VecScatterInitializeForGPU(h, xalloc, mode)
  \/ \E h \in Handles : VecScatterFinalizeForGPU(h)

SpecData == InitData /\ [][NextData]_vars

\* the operations between which a context is remapped and mirrored
NextRemap ==
  \/ \E h \in Handles, xn \in Sizes, yn \in Sizes, mode \in ScatterModes, fail \in Failures :
       VecScatterBegin(h, xn, yn, mode, fail)
  \/ \E h \in Handles, fail \in Failures : VecScatterEnd(h, fail)
  \/ \E h \in Handles : VecScatterDestroy(h)
  \/ \E h \in Handles, tomap \in RemapMaps, frommap \in RemapMaps :
       VecScatterRemap(h, tomap, frommap)
  \/ \E h \in Handles, xalloc \in BOOLEAN, mode \in ScatterModes :
       VecScatterInitializeForGPU(h, xalloc, mode)
  \/ \E h \in Handles : VecScatterFinalizeForGPU(h)

SpecRemap == InitRemap /\ [][NextRemap]_vars

\* the operations on a context and on its copy: a release build ignores the
\* vector sizes, the copy is not merged, the device mirror is the forward one
NextCopy ==
  \/ \E h \in Handles, mode \in ScatterModes, fail \in Failures :
       VecScatterBegin(h, MaxSize, MaxSize, mode, fail)
  \/ \E h \in Handles, fail \in Failures : VecScatterEnd(h, fail)
  \/ \E h \in Handles : VecScatterDestroy(h)
  \/ \E h \in Handles, h2 \in Handles : VecScatterCopy(h, h2, FALSE)
  \/ \E h \in Handles, tomap \in Maps, frommap \in Maps : VecScatterRemap(h, tomap, frommap)
  \/ \E h \in Handles, xalloc \in BOOLEAN :
       VecScatterInitializeForGPU(h, xalloc, "SCATTER_FORWARD")

SpecCopy == InitCopy /\ [][NextCopy]_vars

\* Remap reads tomap at every index of the context
MapCovers(sc) ==
  \A i \in 1..Len(sc.fromdata.vslots) : sc.fromdata.vslots[i] <= MaxIdx

\* the cycles and the remapping of a local-general context
NextScatter ==
  \/ \E h \in Handles, addv \in InsertModes, mode \in ScatterModes : ScatterBegin(h, addv, mode)
  \/ \E h \in Handles : VecScatterEnd(h, "none")
  \/ \E h \in Handles, tomap \in Maps :
       /\ Live(handle[h]) /\ MapCovers(ctx[handle[h]])
       /\ VecScatterRemap(h, tomap, NullMap)

SpecScatter == InitScatter /\ [][NextScatter]_vars

\* the two processes call Begin and End, each at its own pace
NextPeers ==
  \/ \E p \in Procs : Len(net[p][Peer(p)]) < MaxInFlight /\ PeerBegin(p)
  \/ \E p \in Procs : PeerEnd(p)
  \/ \E p \in Procs : PeerWait(p)

SpecPeers == InitPeers /\ [][NextPeers]_vars

(* ------------------------------ claims --------------------------------- *)
\* Begin folds the end-phase in on context c
Merged(c) == ctx[c].beginandendtogether /\ ctx[c].ops.end

\* C1 as stated: whatever the merge flag, a Begin right after a successful
\* Begin on the same context fails with a state error and the context is
\* in use afterwards.
C1_SecondBeginFails ==
  [][(ret.op = "Begin" /\ ret.err = OK /\ ret'.op = "Begin" /\ ret'.c = ret.c)
       => (ret'.err = WRONGSTATE /\ ctx'[ret'.c].inuse)]_vars

\* C1 amended: a Begin right after a successful Begin on the same context
\* fails with a state error and leaves the context in use, unless the merge
\* flag is set and the backend has an end-phase; in that case the first Begin
\* has cleared the in-use flag and the second is not a state error.
C1_SecondBeginFailsUnlessMerged ==
  [][(ret.op = "Begin" /\ ret.err = OK /\ ret'.op = "Begin" /\ ret'.c = ret.c)
       => IF Merged(ret.c)
          THEN ret'.err # WRONGSTATE
          ELSE ret'.err = WRONGSTATE /\ ctx'[ret'.c].inuse]_vars

C1_Witness ==
  /\ ret.op = "Begin" /\ ret.err = WRONGSTATE
  /\ ctx[ret.c].inuse /\ cycle[ret.c] = "open"

\* C2: the in-use flag of a context is set only between a Begin that returned
\* successfully and the matching End; no failed Begin leaves it set.
C2_InUseOnlyInsideCycle ==
  \A c \in CtxIds : ctx[c].inuse => cycle[c] = "open"

C4_DestroyInUseFails ==
  [][\A c \in CtxIds :
       (ctx[c].state = "live" /\ ctx[c].inuse /\ ctx[c].refct = 1
          /\ ret'.op = "Destroy" /\ ret'.c = c)
         => (ret'.err = WRONGSTATE /\ ctx' = ctx /\ handle' = handle)]_vars

C4_Witness ==
  /\ ret.op = "Destroy" /\ ret.err = WRONGSTATE
  /\ ctx[ret.c].state = "live" /\ ctx[ret.c].inuse /\ ctx[ret.c].refct = 1
  /\ \E h \in Handles : handle[h] = ret.c

\* C5: Destroy of a context whose reference count is n >= 2 succeeds, leaves
\* the count at n-1 and everything else of the context as it was (in use or
\* not), and clears the caller's handle; a Destroy releases the context only
\* when it finds the count at 1.
C5_DestroyOnlyDecrements ==
  [][\A c \in CtxIds :
       (ctx[c].state = "live" /\ ret'.op = "Destroy" /\ ret'.c = c)
         => /\ ctx[c].refct >= 2
                => /\ ret'.err = OK
                   /\ ctx'[c] = [ctx[c] EXCEPT !.refct = ctx[c].refct - 1]
                   /\ \E h \in Handles :
                        /\ handle[h] = c
                        /\ handle' = [handle EXCEPT ![h] = NULL]
            /\ ctx'[c].state = "destroyed" => ctx[c].refct = 1]_vars

C5_Witness ==
  /\ ret.op = "Destroy" /\ ret.err = OK /\ ret.c \in CtxIds
  /\ ctx[ret.c].state = "live" /\ ctx[ret.c].refct = 1 /\ ctx[ret.c].inuse
  /\ \E h \in Handles : handle[h] = NULL

\* the size mismatch C6 describes
SizesDisagree(sc, xn, yn, mode) ==
  IF mode = "SCATTER_REVERSE"
  THEN xn # sc.to_n \/ yn # sc.from_n
  ELSE xn # sc.from_n \/ yn # sc.to_n

\* the call Begin(x of size xn, y of size yn, mode) on context c, with the
\* backend failure fail, is what the step did
IsBegin(c, xn, yn, mode, fail) ==
  LET r == BeginCall(ctx[c], xn, yn, mode, fail)
  IN  ret'.err = r.err /\ ret'.calls = r.calls /\ ctx'[c] = r.ctx

\* C6 as stated: on a context not in use with known declared sizes, Begin
\* fails with a size error exactly when the sizes disagree for the direction,
\* and then the context stays not in use and no backend phase runs.
C6_SizeErrorIffMismatch ==
  [][\A c \in CtxIds :
       (/\ ret'.op = "Begin" /\ ret'.c = c
        /\ ~ctx[c].inuse /\ ctx[c].to_n >= 0 /\ ctx[c].from_n >= 0)
         => \A xn \in Sizes, yn \in Sizes, mode \in ScatterModes, fail \in Failures :
              IsBegin(c, xn, yn, mode, fail)
                => /\ (ret'.err = ARG_SIZ) <=> SizesDisagree(ctx[c], xn, yn, mode)
                   /\ ret'.err = ARG_SIZ => (~ctx'[c].inuse /\ ret'.calls = <<>>)]_vars

\* C6 amended: the same, in a build with PETSC_USE_DEBUG; in a build without
\* it Begin never reports a size error.
C6_SizeErrorIffMismatchInDebug ==
  [][\A c \in CtxIds :
       (/\ ret'.op = "Begin" /\ ret'.c = c
        /\ ~ctx[c].inuse /\ ctx[c].to_n >= 0 /\ ctx[c].from_n >= 0)
         => \A xn \in Sizes, yn \in Sizes, mode \in ScatterModes, fail \in Failures :
              IsBegin(c, xn, yn, mode, fail)
                => /\ (ret'.err = ARG_SIZ) <=>
                        (PETSC_USE_DEBUG /\ SizesDisagree(ctx[c], xn, yn, mode))
                   /\ ret'.err = ARG_SIZ => (~ctx'[c].inuse /\ ret'.calls = <<>>)]_vars

C6_Witness ==
  /\ ret.op = "Begin" /\ ret.err = ARG_SIZ /\ ret.calls = <<>>
  /\ PETSC_USE_DEBUG /\ ~ctx[ret.c].inuse
  /\ ctx[ret.c].to_n # ctx[ret.c].from_n

SizesUnknown(sc) == sc.to_n = -1 /\ sc.from_n = -1

\* C7: a successful Remap leaves both declared sizes unknown; they stay
\* unknown while the context lives, and a Begin on it when it is not in use
\* is never a size error and reaches the backend begin-phase.
C7_RemapMakesSizesUnknown ==
  /\ [](ret.op = "Remap" /\ ret.err = OK => SizesUnknown(ctx[ret.c]))
  /\ [][\A c \in CtxIds :
          (ctx[c].state = "live" /\ SizesUnknown(ctx[c]))
            => /\ ctx'[c].state = "live" => SizesUnknown(ctx'[c])
               /\ (ret'.op = "Begin" /\ ret'.c = c /\ ~ctx[c].inuse)
                    => (ret'.err # ARG_SIZ /\ ret'.calls # <<>>
                          /\ Head(ret'.calls) = "begin")]_vars

C7_Witness ==
  /\ ret.op = "Begin" /\ ret.err = OK /\ PETSC_USE_DEBUG
  /\ SizesUnknown(ctx[ret.c])

\* C8: a successful Begin runs the backend begin-phase and then the end-phase
\* and returns with the context not in use when the merge flag is set and the
\* backend has an end-phase; otherwise it runs the begin-phase only and
\* returns with the context in use.
C8_BeginFoldsEnd ==
  (ret.op = "Begin" /\ ret.err = OK)
    => IF Merged(ret.c)
       THEN ret.calls = <<"begin", "end">> /\ ~ctx[ret.c].inuse
       ELSE ret.calls = <<"begin">> /\ ctx[ret.c].inuse

C8_Witness ==
  /\ ret.op = "Begin" /\ ret.err = OK /\ Merged(ret.c)
  /\ ret.calls = <<"begin", "end">> /\ ~ctx[ret.c].inuse

\* C9: an End that closes a cycle opened by a successful Begin leaves the
\* context not in use; with an end-phase the cycle ran it exactly once, in
\* Begin when the merge flag is set (End runs nothing) and in End otherwise;
\* with no end-phase End runs nothing.
C9_EndPhaseOncePerCycle ==
  (ret.op = "End" /\ ret.cycleEnds >= 0)
    => /\ ~ctx[ret.c].inuse
       /\ IF ctx[ret.c].ops.end
          THEN /\ ret.cycleEnds = 1
               /\ ret.calls = IF ctx[ret.c].beginandendtogether THEN <<>> ELSE <<"end">>
          ELSE ret.cycleEnds = 0 /\ ret.calls = <<>>

C9_Witness ==
  /\ ret.op = "End" /\ ret.cycleEnds = 1 /\ ret.calls = <<>>
  /\ Merged(ret.c)

\* C10: a context left in use by a successful Begin stays in use over every
\* call that is not an End on it and does not release it.
C10_InUseUntilEnd ==
  [][\A c \in CtxIds :
       (/\ ctx[c].state = "live" /\ ctx[c].inuse /\ cycle[c] = "open"
        /\ ~(ret'.op = "End" /\ ret'.c = c)
        /\ ctx'[c].state = "live")
         => (ctx'[c].inuse /\ cycle'[c] = "open")]_vars

C10_Witness ==
  /\ ret.op = "Destroy" /\ ret.err = OK /\ ret.c \in CtxIds
  /\ ctx[ret.c].state = "live" /\ ctx[ret.c].inuse /\ cycle[ret.c] = "open"
  /\ SizesUnknown(ctx[ret.c])

(* ------------------------- claims on Remap ----------------------------- *)
\* the call Remap(tomap, frommap) on context c is what the step did
IsRemap(c, tomap, frommap) ==
  /\ ret'.op = "Remap" /\ ret'.c = c
  /\ LET r == RemapCall(ctx[c], tomap, frommap)
     IN  ret'.err = r.err /\ ret'.calls = r.calls /\ ctx'[c] = r.ctx

\* the stride Remap accepts: first 0, step 1, and a tomap that is the
\* identity on its n positions
StrideKept(d, tomap) ==
  d.first = 0 /\ d.step = 1 /\ \A i \in 0..(d.n - 1) : tomap.map[i] = i

\* the tomap is given and the formats do not take it
ToMapRejected(sc, tomap) ==
  /\ ~tomap.null
  /\ \/ sc.todata.format = "VEC_SCATTER_MPI_TOALL"
     \/ /\ sc.todata.format # "VEC_SCATTER_MPI_GENERAL"
        /\ sc.fromdata.format = "VEC_SCATTER_SEQ_STRIDE"
        /\ ~StrideKept(sc.fromdata, tomap)

\* C11 as stated: a Remap with a frommap fails with the not-supported error
\* whatever the tomap and the formats, and does not touch the declared sizes.
C11_FromMapNotSupported ==
  [][\A c \in CtxIds, tomap \in RemapMaps, frommap \in RemapMaps :
       (IsRemap(c, tomap, frommap) /\ ~frommap.null)
         => /\ ret'.err = ERR_SUP
            /\ ctx'[c].to_n = ctx[c].to_n /\ ctx'[c].from_n = ctx[c].from_n]_vars

\* C11 amended: a Remap with a frommap always fails and does not touch the
\* declared sizes; the error is the not-supported error unless a tomap is
\* given that the formats reject (to-all, or a stride that is not kept), and
\* then it is the size error of the tomap part.
C11_FromMapFails ==
  [][\A c \in CtxIds, tomap \in RemapMaps, frommap \in RemapMaps :
       (IsRemap(c, tomap, frommap) /\ ~frommap.null)
         => /\ ret'.err = IF ToMapRejected(ctx[c], tomap) THEN ARG_SIZ ELSE ERR_SUP
            /\ ctx'[c].to_n = ctx[c].to_n /\ ctx'[c].from_n = ctx[c].from_n]_vars

C11_Witness ==
  /\ ret.op = "Remap" /\ ret.err = ERR_SUP
  /\ ctx[ret.c].to_n >= 0 /\ ctx[ret.c].from_n >= 0
  /\ ctx[ret.c].todata.format = "VEC_SCATTER_MPI_GENERAL"
  /\ ctx[ret.c].todata.indices # PtoPScenario.to.indices

\* C12: a Remap that returns an error leaves the context as it was: backend
\* indices, memcpy plans, declared sizes, in-use flag and device mirror.
C12_FailedRemapChangesNothing ==
  [][\A c \in CtxIds :
       (ret'.op = "Remap" /\ ret'.c = c /\ ret'.err # OK) => ctx'[c] = ctx[c]]_vars

\* the index values a backend holds
IndexValues(d) ==
  IF d.format = "VEC_SCATTER_MPI_GENERAL"
  THEN [indices |-> d.indices, vslots |-> d.local.vslots]
  ELSE IF d.format = "VEC_SCATTER_SEQ_GENERAL" THEN [vslots |-> d.vslots]
  ELSE IF d.format = "VEC_SCATTER_SEQ_STRIDE"
       THEN [n |-> d.n, first |-> d.first, step |-> d.step]
  ELSE [format |-> d.format]

\* C13 as stated: a successful Remap with a tomap and no frommap leaves the
\* index values of the from-side backend unchanged, whatever the format.
C13_RemapChangesToSideOnly ==
  [][\A c \in CtxIds, tomap \in RemapMaps :
       (IsRemap(c, tomap, NullMap) /\ ret'.err = OK)
         => IndexValues(ctx'[c].fromdata) = IndexValues(ctx[c].fromdata)]_vars

\* C13 amended: a successful Remap with a tomap and no frommap changes index
\* values only in the backend the data is read from: the to-side of a
\* distributed-general context (its from-side is unchanged) and the from-side
\* of a sequential context (its to-side is unchanged).
C13_RemapChangesReadSideOnly ==
  [][\A c \in CtxIds, tomap \in RemapMaps :
       (IsRemap(c, tomap, NullMap) /\ ret'.err = OK)
         => IF ctx[c].todata.format = "VEC_SCATTER_MPI_GENERAL"
            THEN IndexValues(ctx'[c].fromdata) = IndexValues(ctx[c].fromdata)
            ELSE IndexValues(ctx'[c].todata) = IndexValues(ctx[c].todata)]_vars

C13_Witness ==
  /\ ret.op = "Remap" /\ ret.err = OK
  /\ ctx[ret.c].todata.format = "VEC_SCATTER_SEQ_GENERAL"
  /\ ctx[ret.c].fromdata.format = "VEC_SCATTER_SEQ_GENERAL"
  /\ ctx[ret.c].todata.vslots = SGToSGScenario.to.vslots
  /\ ctx[ret.c].fromdata.vslots # SGToSGScenario.from.vslots

\* C14: a successful Remap of a distributed-general context with a tomap
\* replaces every entry of the message-block index buffer in positions
\* 0 .. starts[n]-1 and every purely local slot by tomap[old entry], once;
\* starts, the number of peers, the block size and the numbers of entries
\* are unchanged.
C14_RemapTranslatesEveryIndexOnce ==
  [][\A c \in CtxIds, tomap \in RemapMaps :
       (/\ IsRemap(c, tomap, NullMap) /\ ret'.err = OK /\ ~tomap.null
        /\ ctx[c].todata.format = "VEC_SCATTER_MPI_GENERAL")
         => LET old == ctx[c].todata
                new == ctx'[c].todata
            IN  /\ \A k \in 1..old.starts[old.n + 1] :
                     new.indices[k] = tomap.map[old.indices[k]]
                /\ \A k \in 1..old.local.n :
                     new.local.vslots[k] = tomap.map[old.local.vslots[k]]
                /\ new.format = old.format /\ new.starts = old.starts
                /\ new.n = old.n /\ new.bs = old.bs
                /\ Len(new.indices) = Len(old.indices)
                /\ new.local.n = old.local.n
                /\ Len(new.local.vslots) = Len(old.local.vslots)]_vars

C14_Witness ==
  /\ ret.op = "Remap" /\ ret.err = OK
  /\ ctx[ret.c].todata.format = "VEC_SCATTER_MPI_GENERAL"
  /\ ctx[ret.c].todata.indices = MapSeq(Reversal, PtoPScenario.to.indices)
  /\ ctx[ret.c].todata.local.vslots = MapSeq(Reversal, PtoPScenario.to.local.vslots)
  /\ ctx[ret.c].todata.indices # PtoPScenario.to.indices

\* C15: after a successful Remap that rewrote backend indices the context has
\* no device mirror; a mirror built before the Remap is not still attached.
C15_RemapDropsMirror ==
  [][\A c \in CtxIds :
       (/\ ret'.op = "Remap" /\ ret'.c = c /\ ret'.err = OK
        /\ \/ IndexValues(ctx'[c].todata) # IndexValues(ctx[c].todata)
           \/ IndexValues(ctx'[c].fromdata) # IndexValues(ctx[c].fromdata))
         => ~ctx'[c].spptr.set]_vars

\* every memcpy plan attached to a backend of sc is the one computed from the
\* indices sc holds now
PlansFresh(sc) ==
  LET to   == sc.todata
      from == sc.fromdata
  IN  IF to.format = "VEC_SCATTER_MPI_GENERAL"
      THEN /\ to = VecScatterMemcpyPlanCreate_PtoP(to)
           /\ from = VecScatterMemcpyPlanCreate_PtoP(from)
      ELSE IF from.format = "VEC_SCATTER_SEQ_GENERAL" /\ to.format = "VEC_SCATTER_SEQ_GENERAL"
      THEN LET plan == VecScatterMemcpyPlanCreate_SGToSG(to.vslots, from.vslots)
           IN  /\ to.memcpy_plan.present => to.memcpy_plan = plan
               /\ from.memcpy_plan.present => from.memcpy_plan = plan
      ELSE IF from.format = "VEC_SCATTER_SEQ_GENERAL"
      THEN from.memcpy_plan.present
             => from.memcpy_plan = VecScatterMemcpyPlanCreate_Index(from.vslots)
      ELSE IF to.format = "VEC_SCATTER_SEQ_GENERAL"
      THEN to.memcpy_plan.present
             => to.memcpy_plan = VecScatterMemcpyPlanCreate_Index(to.vslots)
      ELSE TRUE

\* C16: in every state of a live context, so in every state after a Remap
\* that changed index values, a memcpy plan attached to a backend is the plan
\* of the indices the backends hold in that state, or no plan is attached.
C16_PlansFollowIndices ==
  \A c \in CtxIds : ctx[c].state = "live" => PlansFresh(ctx[c])

C16_Witness ==
  /\ ret.op = "Remap" /\ ret.err = OK
  /\ ctx[ret.c].todata.format = "VEC_SCATTER_SEQ_STRIDE"
  /\ ctx[ret.c].fromdata.format = "VEC_SCATTER_SEQ_GENERAL"
  /\ ctx[ret.c].fromdata.vslots # SGToSSScenario(0, 1).from.vslots
  /\ ctx[ret.c].fromdata.memcpy_plan.present

\* the backend Remap addresses in a sequential context is a stride that is
\* not the identity stride
RemapsOtherStride(sc) ==
  /\ sc.todata.format \in {"VEC_SCATTER_SEQ_GENERAL", "VEC_SCATTER_SEQ_STRIDE"}
  /\ sc.fromdata.format = "VEC_SCATTER_SEQ_STRIDE"
  /\ (sc.fromdata.first # 0 \/ sc.fromdata.step # 1)

\* C17 as stated: Remap of a stride that is not the identity stride with a
\* tomap that is not the identity fails with the not-supported error.
C17_OtherStrideNotSupported ==
  [][\A c \in CtxIds, tomap \in RemapMaps, frommap \in RemapMaps :
       (/\ IsRemap(c, tomap, frommap) /\ ~tomap.null /\ tomap.map # Identity
        /\ RemapsOtherStride(ctx[c]))
         => ret'.err = ERR_SUP]_vars

\* C17 amended: such a Remap fails with the size/argument error, whatever
\* the frommap, and changes nothing in the context.
C17_OtherStrideSizeError ==
  [][\A c \in CtxIds, tomap \in RemapMaps, frommap \in RemapMaps :
       (/\ IsRemap(c, tomap, frommap) /\ ~tomap.null /\ tomap.map # Identity
        /\ RemapsOtherStride(ctx[c]))
         => (ret'.err = ARG_SIZ /\ ctx'[c] = ctx[c])]_vars

C17_Witness ==
  /\ ret.op = "Remap" /\ ret.err = ARG_SIZ
  /\ RemapsOtherStride(ctx[ret.c])
  /\ ctx[ret.c].to_n >= 0

\* the backend Remap addresses in a sequential context is the identity stride
RemapsIdentityStride(sc) ==
  /\ sc.todata.format \in {"VEC_SCATTER_SEQ_GENERAL", "VEC_SCATTER_SEQ_STRIDE"}
  /\ sc.fromdata.format = "VEC_SCATTER_SEQ_STRIDE"
  /\ sc.fromdata.first = 0 /\ sc.fromdata.step = 1

\* C18: Remap(tomap, no frommap) of the identity stride of count n succeeds
\* exactly when tomap[i] = i for every i in 0..n-1. When it does, both
\* backends (stride, index lists, plans) are as before; when tomap[i] # i for
\* some i < n the call is a size/argument error, with or without a frommap,
\* and the context is as before.
C18_IdentityStrideTakesIdentityOnly ==
  [][\A c \in CtxIds, tomap \in RemapMaps, frommap \in RemapMaps :
       (IsRemap(c, tomap, frommap) /\ ~tomap.null /\ RemapsIdentityStride(ctx[c]))
         => /\ ctx'[c].todata = ctx[c].todata /\ ctx'[c].fromdata = ctx[c].fromdata
            /\ IF \A i \in 0..(ctx[c].fromdata.n - 1) : tomap.map[i] = i
               THEN frommap.null => ret'.err = OK
               ELSE ret'.err = ARG_SIZ /\ ctx'[c] = ctx[c]]_vars

C18_Witness ==
  /\ ret.op = "Remap" /\ ret.err = ARG_SIZ
  /\ RemapsIdentityStride(ctx[ret.c])
  /\ SizesUnknown(ctx[ret.c])

\* C19: a successful Remap with the identity as tomap leaves every index
\* value, and with it both backends, unchanged; a Begin on the remapped
\* context that the unmapped context would not refuse for its sizes runs the
\* same backend phases on the same backend data, for every direction.
C19_IdentityRemapKeepsTransfer ==
  [][\A c \in CtxIds :
       (IsRemap(c, [null |-> FALSE, map |-> Identity], NullMap) /\ ret'.err = OK)
         => /\ IndexValues(ctx'[c].todata) = IndexValues(ctx[c].todata)
            /\ IndexValues(ctx'[c].fromdata) = IndexValues(ctx[c].fromdata)
            /\ ctx'[c].todata = ctx[c].todata /\ ctx'[c].fromdata = ctx[c].fromdata
            /\ \A xn \in Sizes, yn \in Sizes, mode \in ScatterModes, fail \in Failures :
                 LET old == BeginCall(ctx[c], xn, yn, mode, fail)
                     new == BeginCall(ctx'[c], xn, yn, mode, fail)
                 IN  old.err # ARG_SIZ
                       => /\ new.err = old.err /\ new.calls = old.calls
                          /\ new.ctx.todata = old.ctx.todata
                          /\ new.ctx.fromdata = old.ctx.fromdata
                          /\ new.ctx.inuse = old.ctx.inuse]_vars

C19_Witness ==
  /\ ret.op = "Remap" /\ ret.err = OK
  /\ ctx[ret.c].todata = SGToSGScenario.to /\ ctx[ret.c].fromdata = SGToSGScenario.from
  /\ SizesUnknown(ctx[ret.c]) /\ ~ctx[ret.c].inuse

(* ---------------------- claims on the device mirror -------------------- *)
\* C20: the device mirror of a context is built at most once, by
\* InitializeForGPU: once it is present every later InitializeForGPU, with
\* any vector and direction, leaves the context as it is; FinalizeForGPU
\* changes nothing; the mirror changes or goes only when Destroy releases
\* the context.
C20_MirrorBuiltOnce ==
  [][\A c \in CtxIds :
       /\ (ctx[c].spptr.set /\ ret'.op = "InitializeForGPU" /\ ret'.c = c)
            => ctx'[c] = ctx[c]
       /\ (ret'.op = "FinalizeForGPU" /\ ret'.c = c) => ctx'[c] = ctx[c]
       /\ (ctx[c].spptr.set /\ ctx'[c].spptr # ctx[c].spptr)
            => (ret'.op = "Destroy" /\ ret'.c = c /\ ctx'[c].state = "destroyed")
       /\ (~ctx[c].spptr.set /\ ctx'[c].spptr.set)
            => (ret'.op = "InitializeForGPU" /\ ret'.c = c)]_vars

C20_Witness ==
  /\ ret.op = "InitializeForGPU" /\ ctx[ret.c].spptr.set
  /\ ctx[ret.c].spptr # GPUIndices(ctx[ret.c].todata, ctx[ret.c].fromdata)
  /\ ctx[ret.c].spptr # GPUIndices(ctx[ret.c].fromdata, ctx[ret.c].todata)

\* the call InitializeForGPU(x, mode) on context c is what the step did;
\* xalloc says that x has device-resident data
IsInitializeForGPU(c, xalloc, mode) ==
  /\ ret'.op = "InitializeForGPU" /\ ret'.c = c
  /\ ctx'[c] = InitializeForGPUCall(ctx[c], xalloc, mode)

\* either side of sc is local-general or local-stride
HasLocalSide(sc) ==
  \/ sc.todata.format \in {"VEC_SCATTER_SEQ_GENERAL", "VEC_SCATTER_SEQ_STRIDE"}
  \/ sc.fromdata.format \in {"VEC_SCATTER_SEQ_GENERAL", "VEC_SCATTER_SEQ_STRIDE"}

BothDistributed(sc) ==
  /\ sc.todata.format = "VEC_SCATTER_MPI_GENERAL"
  /\ sc.fromdata.format = "VEC_SCATTER_MPI_GENERAL"

\* C21 as stated: InitializeForGPU changes nothing when a side is local or
\* x has no device data; in every other case with both sides distributed-
\* general and no mirror, the call creates the mirror.
C21_MirrorCreatedUnlessLocal ==
  [][\A c \in CtxIds, xalloc \in BOOLEAN, mode \in ScatterModes :
       IsInitializeForGPU(c, xalloc, mode)
         => IF HasLocalSide(ctx[c]) \/ ~xalloc
            THEN ctx'[c] = ctx[c]
            ELSE (BothDistributed(ctx[c]) /\ ~ctx[c].spptr.set) => ctx'[c].spptr.set]_vars

\* C21 amended: the same, but in the other cases the mirror is created only
\* when a side has at least one peer; with no peer on either side the call
\* changes nothing.
C21_MirrorCreatedForPeers ==
  [][\A c \in CtxIds, xalloc \in BOOLEAN, mode \in ScatterModes :
       IsInitializeForGPU(c, xalloc, mode)
         => IF HasLocalSide(ctx[c]) \/ ~xalloc
            THEN ctx'[c] = ctx[c]
            ELSE (BothDistributed(ctx[c]) /\ ~ctx[c].spptr.set)
                   => IF ctx[c].todata.n > 0 \/ ctx[c].fromdata.n > 0
                      THEN /\ ctx'[c].spptr.set
                           /\ ctx'[c] = [ctx[c] EXCEPT !.spptr = ctx'[c].spptr]
                      ELSE ctx'[c] = ctx[c]]_vars

C21_Witness ==
  /\ ret.op = "InitializeForGPU" /\ BothDistributed(ctx[ret.c])
  /\ ctx[ret.c].spptr.set /\ ctx[ret.c].todata.n > 0
  /\ ctx[ret.c].todata = PtoPScenario.to

\* the indices in the peers' ranges of a distributed-general backend
PeerIndices(d) == {d.indices[k] : k \in 1..d.starts[d.n + 1]}

\* the indices of its purely local slots
LocalIndices(d) == {d.local.vslots[k] : k \in 1..d.local.n}

\* buf lists, for each index of S in increasing order, the bs components
\* idx, idx+1, ..., idx+bs-1, and nothing else
IsBlockExpansion(buf, S, bs) ==
  /\ Len(buf) = bs * Cardinality(S)
  /\ \A idx \in S, k \in 0..(bs - 1) :
       buf[bs * Cardinality({j \in S : j < idx}) + k + 1] = idx + k

\* the side InitializeForGPU sends from
SendSide(sc, mode) == IF mode = "SCATTER_REVERSE" THEN sc.fromdata ELSE sc.todata

\* C22 as stated: the send-index buffer built by the first InitializeForGPU
\* is the deduplicated, block-expanded union of the indices of all peers'
\* ranges and of the purely local slots.
C22_SendsCoverPeersAndLocal ==
  [][\A c \in CtxIds, xalloc \in BOOLEAN, mode \in ScatterModes :
       (IsInitializeForGPU(c, xalloc, mode) /\ ~ctx[c].spptr.set /\ ctx'[c].spptr.set)
         => LET to == SendSide(ctx[c], mode)
            IN  IsBlockExpansion(ctx'[c].spptr.sends,
                                 PeerIndices(to) \cup LocalIndices(to), to.bs)]_vars

\* C22 amended: the send-index buffer is the deduplicated, block-expanded
\* union of the indices of all peers' ranges; the purely local slots, which
\* are not sent, are not in it unless a peer's range names them too.
C22_SendsCoverPeers ==
  [][\A c \in CtxIds, xalloc \in BOOLEAN, mode \in ScatterModes :
       (IsInitializeForGPU(c, xalloc, mode) /\ ~ctx[c].spptr.set /\ ctx'[c].spptr.set)
         => LET to == SendSide(ctx[c], mode)
            IN  IsBlockExpansion(ctx'[c].spptr.sends, PeerIndices(to), to.bs)]_vars

C22_Witness ==
  /\ ret.op = "InitializeForGPU" /\ ctx[ret.c].spptr.set
  /\ ctx[ret.c].todata = PtoPScenario.to
  /\ ctx[ret.c].spptr.sends = <<0, 1, 2, 3>>
  /\ LocalIndices(ctx[ret.c].todata) \ PeerIndices(ctx[ret.c].todata) # {}

(* ------------------------------- Copy ---------------------------------- *)
\* the context a successful Copy has just created from c
IsCopyOf(n, c) ==
  /\ ret'.op = "Copy" /\ ret'.err = OK /\ ret'.c = c
  /\ ctx[n].state = "free" /\ ctx'[n].state = "live"

\* C23: a successful Copy yields a new context with the declared sizes of
\* the source and equal backend index state, with reference count 1, not in
\* use even when the source is, and without a device mirror; the source is
\* unchanged; and a later Remap, Begin, End or Destroy on one of the two
\* changes nothing of the other.
C23_CopyIsFreshAndIndependent ==
  [][/\ (ret'.op = "Copy" /\ ret'.err = OK) =>
          \E n \in CtxIds \ {ret'.c} :
            /\ IsCopyOf(n, ret'.c)
            /\ ctx'[n].to_n = ctx[ret'.c].to_n /\ ctx'[n].from_n = ctx[ret'.c].from_n
            /\ ctx'[n].todata = ctx[ret'.c].todata
            /\ ctx'[n].fromdata = ctx[ret'.c].fromdata
            /\ ctx'[n].refct = 1 /\ ~ctx'[n].inuse /\ ctx'[n].spptr = NoMirror
            /\ \A d \in CtxIds \ {n} : ctx'[d] = ctx[d]
     /\ \A c \in CtxIds, d \in CtxIds :
          (c # d /\ ret'.op \in {"Remap", "Begin", "End", "Destroy"} /\ ret'.c = c)
            => ctx'[d] = ctx[d]]_vars

\* a copy was just taken of a context that is in use and has a device mirror
C23_Witness ==
  /\ ret.op = "Copy" /\ ret.err = OK
  /\ ctx[ret.c].inuse /\ ctx[ret.c].spptr.set
  /\ \E n \in CtxIds \ {ret.c} :
       /\ Live(n) /\ ~ctx[n].inuse /\ ctx[n].spptr = NoMirror
       /\ ctx[n].todata = ctx[ret.c].todata

\* C24: Copy on a context whose backend has no copy rule fails with the
\* unsupported-operation error, creates no context and leaves the source
\* (and every caller variable) unchanged.
C24_CopyWithoutRuleFails ==
  [][(ret'.op = "Copy" /\ ~ctx[ret'.c].ops.copy)
       => (ret'.err = ERR_SUP /\ ctx' = ctx /\ handle' = handle)]_vars

\* a Copy was just refused on a context without a copy rule
C24_Witness ==
  /\ ret.op = "Copy" /\ ret.err = ERR_SUP
  /\ Live(ret.c) /\ ~ctx[ret.c].ops.copy
  /\ \A n \in CtxIds \ {ret.c} : ctx[n].state = "free"

(* ------------------------- Remap and the plans ------------------------- *)
\* Remap with a tomap rewrites the general side of the sequential context sc
RemapsGeneralSide(sc) ==
  /\ sc.fromdata.format = "VEC_SCATTER_SEQ_GENERAL"
  /\ sc.todata.format \in {"VEC_SCATTER_SEQ_GENERAL", "VEC_SCATTER_SEQ_STRIDE"}

\* what Remap does to the plans of context c when the single-run plan is
\* rebuilt for the paired strides in rebuilt(to) only: the backend calls in
\* their order (a destroy before every create) and the plans afterwards
PlansRebuiltFor(c, rebuilt(_)) ==
  LET to == ctx[c].todata
      f1 == ctx'[c].fromdata
  IN  IF to.format = "VEC_SCATTER_SEQ_STRIDE"
      THEN IF rebuilt(to)
           THEN /\ ret'.calls = <<"PlanDestroy", "PlanCreate_Index">>
                /\ f1.memcpy_plan = VecScatterMemcpyPlanCreate_Index(f1.vslots)
           ELSE /\ ret'.calls = <<>>
                /\ f1.memcpy_plan = ctx[c].fromdata.memcpy_plan
      ELSE /\ ret'.calls = <<"PlanDestroy", "PlanDestroy", "PlanCreate_SGToSG">>
           /\ f1.memcpy_plan = VecScatterMemcpyPlanCreate_SGToSG(to.vslots, f1.vslots)
           /\ ctx'[c].todata.memcpy_plan = f1.memcpy_plan

IsIdentityStride(to) == to.first = 0 /\ to.step = 1
IsUnitStride(to)     == to.step = 1

\* C29 as stated: paired with a stride, the single-run plan is discarded and
\* rebuilt only when the stride is the identity stride (start 0 and step 1);
\* paired with a general backend both plans are discarded before the pairwise
\* plan is rebuilt.
C29_RebuiltForIdentityStrideOnly ==
  [][\A c \in CtxIds, tomap \in RemapMaps, frommap \in RemapMaps :
       (IsRemap(c, tomap, frommap) /\ ~tomap.null /\ RemapsGeneralSide(ctx[c]))
         => PlansRebuiltFor(c, IsIdentityStride)]_vars

\* C29 amended: the single-run plan is discarded and rebuilt exactly when the
\* paired stride has step 1, whatever its start; the rest as stated.
C29_RebuiltForUnitStride ==
  [][\A c \in CtxIds, tomap \in RemapMaps, frommap \in RemapMaps :
       (IsRemap(c, tomap, frommap) /\ ~tomap.null /\ RemapsGeneralSide(ctx[c]))
         => PlansRebuiltFor(c, IsUnitStride)]_vars

\* a Remap has just rebuilt the single-run plan of rewritten indices that
\* are paired with a stride of step 1 that does not start at 0
C29_Witness ==
  /\ ret.op = "Remap" /\ ret.calls = <<"PlanDestroy", "PlanCreate_Index">>
  /\ ctx[ret.c].todata.format = "VEC_SCATTER_SEQ_STRIDE"
  /\ ctx[ret.c].todata.first # 0
  /\ ctx[ret.c].fromdata.vslots # SGToSSScenario(1, 1).from.vslots

(* --------------------------- End out of cycle -------------------------- *)
\* the step is VecScatterEnd on context c, fail naming the failing backend phase
IsEnd(c, fail) ==
  /\ ret'.op = "End" /\ ret'.c = c /\ Live(c)
  /\ ctx'[c] = EndCall(ctx[c], fail).ctx
  /\ ret'.err = EndCall(ctx[c], fail).err
  /\ ret'.calls = EndCall(ctx[c], fail).calls

\* C30: End makes no state check. On a context that is not in use it raises
\* no state error, returns success when no backend phase fails, leaves the
\* in-use flag false, and runs the backend end-phase once more when the merge
\* flag is clear and the backend has an end-phase (and not otherwise).
C30_EndOutOfCycleRunsEndPhase ==
  [][\A c \in CtxIds, fail \in {"none", "end"} :
       (IsEnd(c, fail) /\ ~ctx[c].inuse)
         => /\ ret'.err # WRONGSTATE
            /\ fail = "none" => ret'.err = OK
            /\ ~ctx'[c].inuse
            /\ ret'.calls = IF ctx[c].ops.end /\ ~ctx[c].beginandendtogether
                            THEN <<"end">> ELSE <<>>]_vars

\* an End that no Begin preceded has just run the end-phase and succeeded
C30_Witness ==
  /\ ret.op = "End" /\ ret.err = OK /\ ret.cycleEnds = -1
  /\ ret.calls = <<"end">>
  /\ ~ctx[ret.c].inuse /\ ~ctx[ret.c].beginandendtogether

(* ----------------------------- transfers ------------------------------- *)
\* the step is a Begin on context c that ran the transfer (mode, addv)
IsTransfer(c, mode, addv) ==
  /\ ret'.op = "Begin" /\ ret'.c = c /\ ret'.err = OK
  /\ ret'.mode = mode /\ ret'.addv = addv

\* the last position of the list to that holds p
LastAt(to, p) ==
  CHOOSE i \in 1..Len(to) : to[i] = p /\ \A j \in 1..Len(to) : to[j] = p => j <= i

\* C25: a forward cycle in overwrite mode with block size 1 leaves y[p] equal
\* to x[from[i]] for the largest i with to[i] = p, leaves y[p] as it was for
\* every p that to does not list, and leaves x as it was.
C25_ForwardOverwriteLastWins ==
  [][\A c \in CtxIds :
       (/\ IsTransfer(c, "SCATTER_FORWARD", "INSERT_VALUES")
        /\ BlockSize(ctx[c].todata) = 1)
         => LET to   == ctx[c].todata.vslots
                from == ctx[c].fromdata.vslots
            IN  /\ vec'[c].x = vec[c].x
                /\ Len(vec'[c].y) = Len(vec[c].y)
                /\ \A p \in 0..(Len(vec[c].y) - 1) :
                     vec'[c].y[p + 1] =
                       IF \E i \in 1..Len(to) : to[i] = p
                       THEN vec[c].x[from[LastAt(to, p)] + 1]
                       ELSE vec[c].y[p + 1]]_vars

\* the example: to=[3,1,4,1,5], from=[0,1,2,2,4] has given y[3]=x[0],
\* y[1]=x[2], y[4]=x[2], y[5]=x[4] and left y[0] and y[2]
C25_Witness ==
  /\ ret.op = "Begin" /\ ret.err = OK
  /\ ret.mode = "SCATTER_FORWARD" /\ ret.addv = "INSERT_VALUES"
  /\ ctx[ret.c].todata.vslots = DocTo /\ ctx[ret.c].fromdata.vslots = DocFrom
  /\ vec[ret.c].x = <<1, 2, 3, 4, 5>>
  /\ vec[ret.c].y = <<6, 3, 8, 1, 3, 5>>

\* both index lists of sc are one permutation of 0..n-1
IsPermutationPair(sc) ==
  LET P == sc.todata.vslots
  IN  /\ sc.fromdata.vslots = P
      /\ {P[i] : i \in 1..Len(P)} = 0..(Len(P) - 1)

\* C26: on a local-general pair whose to and from lists are one permutation,
\* the reverse overwrite scatter of the y a forward overwrite scatter has
\* just written gives x back.
C26_ForwardThenReverseIsIdentity ==
  [][\A c \in CtxIds :
       (IsTransfer(c, "SCATTER_FORWARD", "INSERT_VALUES") /\ IsPermutationPair(ctx[c]))
         => VecScatterBegin_SGToSG(ctx'[c].todata, ctx'[c].fromdata, vec'[c].y, vec'[c].x,
                                   "INSERT_VALUES", "SCATTER_REVERSE") = vec[c].x]_vars

\* a reverse overwrite scatter has followed a forward one on a permutation
\* that is not the identity: y holds what x held in 0..2 and x is as it was
C26_Witness ==
  /\ ret.op = "Begin" /\ ret.err = OK
  /\ ret.mode = "SCATTER_REVERSE" /\ ret.addv = "INSERT_VALUES"
  /\ IsPermutationPair(ctx[ret.c]) /\ ctx[ret.c].todata.vslots = <<2, 0, 1>>
  /\ vec[ret.c].scatters = 2
  /\ vec[ret.c].x = <<1, 2, 3, 4, 5>>
  /\ vec[ret.c].y = <<1, 2, 3, 9, 10>>

\* C27: a cycle on a context with a plan writes what the same cycle writes
\* with the plan removed (element by element), for every index list, block
\* size, direction and combine mode, before and after a Remap.
C27_PlanKeepsTransfer ==
  [][\A c \in CtxIds, mode \in ScatterModes, addv \in InsertModes :
       (IsTransfer(c, mode, addv) /\ ctx[c].todata.memcpy_plan.present)
         => LET x == IF IsReverse(mode) THEN vec[c].y ELSE vec[c].x
                y == IF IsReverse(mode) THEN vec[c].x ELSE vec[c].y
                w == VecScatterBegin_SGToSG(WithoutPlan(ctx[c].todata),
                                            WithoutPlan(ctx[c].fromdata), x, y, addv, mode)
            IN  /\ (IF IsReverse(mode) THEN vec'[c].x ELSE vec'[c].y) = w
                /\ (IF IsReverse(mode) THEN vec'[c].y ELSE vec'[c].x) = x]_vars

\* a remapped context with a run of two indices in its plan has just
\* accumulated in the reverse direction
C27_Witness ==
  /\ ret.op = "Begin" /\ ret.err = OK
  /\ ret.mode = "SCATTER_REVERSE" /\ ret.addv = "ADD_VALUES"
  /\ SizesUnknown(ctx[ret.c])
  /\ ctx[ret.c].fromdata.vslots # <<0, 1, 2>>
  /\ BlockSize(ctx[ret.c].todata) = 2
  /\ \E i \in 1..Len(ctx[ret.c].todata.memcpy_plan.runs) :
       ctx[ret.c].todata.memcpy_plan.runs[i].len = 2
  /\ vec[ret.c].x # ScatterVectors(SGPair(<<0, 0, 0>>, <<0, 1, 2>>, 1)).x

(* ----------------------------- processes ------------------------------- *)
\* process p is inside a call and the transfers it waits for are not complete
Waits(p) == pc[p] # "idle" /\ ~Arrived(p)

\* C28: on a context with the merge flag clear a process is never inside
\* Begin waiting for its peer, whatever the peer has done: Begin returns in
\* the step that calls it, and a process that waits for a peer is in End.
C28_WaitOnlyInEnd ==
  /\ [](\A p \in Procs :
          (Live(p) /\ ~ctx[p].beginandendtogether)
            => (pc[p] # "Begin" /\ (Waits(p) => pc[p] = "End")))
  /\ [][\A p \in Procs :
          (ret'.op = "Begin" /\ ret'.c = p /\ pc[p] = "idle" /\ ~ctx[p].beginandendtogether)
            => pc'[p] = "idle"]_vars

\* with the merge flag clear, a process has returned from Begin before its
\* peer called Begin, and now waits in End for the message of that peer
C28_Witness ==
  \E p \in Procs :
    /\ ~ctx[p].beginandendtogether
    /\ pc[p] = "End" /\ Waits(p) /\ cycle[p] = "none"
    /\ net[p][Peer(p)] # <<>>
    /\ pc[Peer(p)] = "idle" /\ ~ctx[Peer(p)].inuse /\ vec[Peer(p)].y = <<0, 0>>

====
